---- MODULE Spec2Model ----
(***************************************************************************)
(* Model of src/main.rs: a conversational agent that classifies the intent *)
(* of a user message, optionally runs a search tool, and synthesizes a     *)
(* response, wrapped in a one-shot (-p) mode and an interactive loop that   *)
(* keeps the conversation history.                                          *)
(*                                                                          *)
(* Text is modelled as a sequence of one-character strings, so that trim,   *)
(* to_lowercase, contains, format!, join and JSON rendering are computed    *)
(* character by character as the code computes them.                        *)
(***************************************************************************)
EXTENDS Integers, Sequences, FiniteSets, TLC

(***************************************************************************)
(* Bounds of the model.                                                     *)
(***************************************************************************)
\* longest standard input of the interactive session, in lines
MaxLines == 3
\* concurrent sessions sharing one agent in SpecConc
NumSessions == 2
\* longest padding put around a word in the inputs of SpecNormalize
MaxPad == 1

(***************************************************************************)
(* Text helpers.                                                            *)
(***************************************************************************)
BoundedSeq(S, n) == UNION {[1..k -> S] : k \in 0..n}

UpperAscii == <<"A","B","C","D","E","F","G","H","I","J","K","L","M",
                "N","O","P","Q","R","S","T","U","V","W","X","Y","Z">>
LowerAscii == <<"a","b","c","d","e","f","g","h","i","j","k","l","m",
                "n","o","p","q","r","s","t","u","v","w","x","y","z">>

\* char::to_lowercase / u8::to_ascii_lowercase on the characters of the model
LowerChar(c) ==
    IF \E i \in 1..26 : UpperAscii[i] = c
      THEN LowerAscii[CHOOSE i \in 1..26 : UpperAscii[i] = c]
      ELSE c

\* a normalization that forgets to lower-case its input
to_lowercase_id(t) == t

\* str::to_lowercase
to_lowercase(t) == [i \in 1..Len(t) |-> LowerChar(t[i])]

\* str::contains(&str): some window of t equals pat
contains(t, pat) ==
    \E i \in 0..(Len(t) - Len(pat)) :
        \A j \in 1..Len(pat) : t[i + j] = pat[j]

\* a comparison that takes the letter case into account
eq_exact(a, b) == a = b

\* str::eq_ignore_ascii_case
eq_ignore_ascii_case(a, b) ==
    /\ Len(a) = Len(b)
    /\ \A i \in 1..Len(a) : LowerChar(a[i]) = LowerChar(b[i])

\* char::is_whitespace, on the characters of the model
IsWhitespace(c) == c \in {" ", "\t", "\n", "\r"}

\* str::trim: drop leading and trailing whitespace
trim(t) ==
    LET keep == {i \in 1..Len(t) : ~IsWhitespace(t[i])}
    IN  IF keep = {} THEN <<>>
        ELSE LET lo == CHOOSE i \in keep : \A k \in keep : i <= k
                 hi == CHOOSE i \in keep : \A k \in keep : k <= i
             IN  SubSeq(t, lo, hi)

\* [String]::join(sep): the entries separated by sep
RECURSIVE join(_, _)
join(v, sep) ==
    IF v = <<>> THEN <<>>
    ELSE IF Len(v) = 1 THEN v[1]
    ELSE v[1] \o sep \o join(Tail(v), sep)

\* serde_json's escaping of one character inside a JSON string
JsonEscapeChar(c) ==
    CASE c = "\"" -> <<"\\", "\"">>
      [] c = "\\" -> <<"\\", "\\">>
      [] c = "\n" -> <<"\\", "n">>
      [] c = "\r" -> <<"\\", "r">>
      [] c = "\t" -> <<"\\", "t">>
      [] OTHER    -> <<c>>

RECURSIVE JsonEscape(_)
JsonEscape(t) ==
    IF t = <<>> THEN <<>> ELSE JsonEscapeChar(Head(t)) \o JsonEscape(Tail(t))

\* serde_json::Value::to_string() of a Value::String: the JSON rendering,
\* quoted and escaped (forward reads its inputs this way)
ValueToString(t) == <<"\"">> \o JsonEscape(t) \o <<"\"">>

(***************************************************************************)
(* Text constants of the program.                                           *)
(***************************************************************************)
T_search == <<"s","e","a","r","c","h">>
T_chat == <<"c","h","a","t">>
T_exit == <<"e","x","i","t">>
T_quit == <<"q","u","i","t">>
T_dash_p == <<"-","p">>
UserPrefix == <<"U","s","e","r",":"," ">>
AssistantPrefix == <<"A","s","s","i","s","t","a","n","t",":"," ">>
Newline == <<"\n">>
\* the text the mock search function returns
SearchWebResult ==
    <<"T","r","u","m","p"," ","i","s"," ","c","u","r","r","e","n","t","l","y"," ","t","h","e"," ","p","r","e","s","i","d","e","n","t"," ","i","n"," ","2","0","2","5">>

(***************************************************************************)
(* Inputs of the model: command lines, lines of standard input, and the     *)
(* texts a language-model call can put in its output field.                 *)
(***************************************************************************)
T_prog == <<"a","g","e","n","t">>
T_hi == <<"h","i">>
T_quoted == <<"a","\"","b">>

ArgsChoices ==
    { <<T_prog>>, <<T_prog, T_dash_p>>, <<T_prog, T_dash_p, T_hi>>,
      <<T_prog, T_hi, T_dash_p>> }

L_blank == <<" ","\n">>
L_hi == <<"h","i","\n">>
L_quoted == <<" ","a","\"","b"," ","\n">>
L_exit == <<"E","x","i","t","\n">>
L_quit == <<"Q","U","I","T">>
InputLines == {L_blank, L_hi, L_quoted, L_exit, L_quit}

\* read_line returns a line without its newline only at the end of input
WellFormedStdin(in) ==
    \A i \in 1..Len(in) : i < Len(in) => in[i][Len(in[i])] = "\n"

Stdins == {in \in BoundedSeq(InputLines, MaxLines) : WellFormedStdin(in)}

IntentOutputs == { <<"s","e","a","r","c","h">>, <<"S","e","a","r","c","h"," ","n","e","e","d","e","d">>, <<"c","h","a","t">>, <<>> }
QueryOutputs == { <<"2","+","2">>, <<>> }
ResponseOutputs == { <<"4">>, <<"o","k","\n","b","y","e">> }

\* what one forward_with_config call can come back with: Err, a prediction
\* whose output field holds the text val, or a prediction without a string in
\* that field ("bad")
LMOutcomes(vals) ==
    {[kind |-> "err", val |-> <<>>], [kind |-> "bad", val |-> <<>>]}
      \cup {[kind |-> "ok", val |-> v] : v \in vals}

(***************************************************************************)
(* State.                                                                   *)
(***************************************************************************)
VARIABLES
    args,                  \* env::args() of each session's process
    stdin,                 \* lines of standard input not yet read
    pc,                    \* where each session's task stands
    message,               \* main: the trimmed input line / the -p question
    conversation_history,  \* main: Vec<String> of "User: .." / "Assistant: .."
    user_message,          \* forward: inputs.data["user_message"].to_string()
    history_arg,           \* forward: its local conversation_history
    intent,                \* forward: what classify returned
    search_results,        \* forward: Option<String>, <<>> for None, <<t>> for Some(t)
    lock,                  \* holder of each Arc<Mutex<LM>>, 0 when free
    inflight,              \* language-model calls in flight: <<session, stage, binding>>
    trace,                 \* the calls of the current turn and how they ended
    result,                \* what forward returned for the last turn
    completed,             \* the <<message, response>> of every successful turn
    histBefore,            \* conversation_history when the current turn started
    normText,              \* SpecNormalize: a classifier output text
    normLabel              \* SpecNormalize: its normalized intent

vars == <<args, stdin, pc, message, conversation_history, user_message,
          history_arg, intent, search_results, lock, inflight, trace, result,
          completed, histBefore, normText, normLabel>>

Sessions == 1..NumSessions
Bindings == {"classifier_lm", "personality_lm"}
NoResult == [kind |-> "none", response |-> <<>>]

\* an agent built with one language model for every predictor
PersonalityBindingShared == "classifier_lm"

\* an agent whose search tool is given the personality model
SearchToolBindingOther == "personality_lm"

\* ConversationalAgent::new: the binding each predictor is given
PersonalityBinding == "personality_lm"
ClassifierBinding == "classifier_lm"
SearchToolBinding == "classifier_lm"

Event(stage, ev, data) == [stage |-> stage, ev |-> ev, data |-> data]

\* a respond that drops the search results it is given
UnwrapOrEmptyDrops(opt) == <<>>

\* Option::unwrap_or("") of the search results
UnwrapOrEmpty(opt) == IF opt = <<>> THEN <<>> ELSE opt[1]

\* main: the -p flag selects the one-shot mode
OneShot(a) == Len(a) >= 3 /\ a[2] = T_dash_p

\* search_web: the mock ignores its query
search_web(query) == SearchWebResult

\* IntentClassifier::classify, after the call: lower-case the intent field and
\* normalize it to one of the two expected values
NormalizeIntent(raw) ==
    IF contains(to_lowercase(raw), T_search) THEN T_search ELSE T_chat

(***************************************************************************)
(* Init: only the sessions in `run` are started.                            *)
(***************************************************************************)
\* a command line with the standard input it is run on; the one-shot mode
\* never reads its standard input
ProcessInputs(argChoices, stdinChoices) ==
    {inp \in argChoices \X stdinChoices : OneShot(inp[1]) => inp[2] = <<>>}

InitSessions(run, argChoices, stdinChoices) ==
    /\ \E inp \in [run -> ProcessInputs(argChoices, stdinChoices)] :
         /\ args = [s \in Sessions |-> IF s \in run THEN inp[s][1] ELSE <<T_prog>>]
         /\ stdin = [s \in Sessions |-> IF s \in run THEN inp[s][2] ELSE <<>>]
    /\ pc = [s \in Sessions |-> IF s \in run THEN "main" ELSE "exited"]
    /\ message = [s \in Sessions |-> <<>>]
    /\ conversation_history = [s \in Sessions |-> <<>>]
    /\ user_message = [s \in Sessions |-> <<>>]
    /\ history_arg = [s \in Sessions |-> <<>>]
    /\ intent = [s \in Sessions |-> <<>>]
    /\ search_results = [s \in Sessions |-> <<>>]
    /\ lock = [b \in Bindings |-> 0]
    /\ inflight = {}
    /\ trace = [s \in Sessions |-> <<>>]
    /\ result = [s \in Sessions |-> NoResult]
    /\ completed = [s \in Sessions |-> <<>>]
    /\ histBefore = [s \in Sessions |-> <<>>]

\* the program as written: one process, one session
Init ==
    /\ InitSessions({1}, ArgsChoices, Stdins)
    /\ normText = <<>>
    /\ normLabel = <<>>

normVars == <<normText, normLabel>>
lockVars == <<lock, inflight>>

(***************************************************************************)
(* ConversationalAgent::forward up to its first await: read the inputs and  *)
(* call the classifier.                                                     *)
(***************************************************************************)
forward_begin(s, msg, hist) ==
    /\ message' = [message EXCEPT ![s] = msg]
    /\ user_message' = [user_message EXCEPT ![s] = ValueToString(msg)]
    /\ history_arg' = [history_arg EXCEPT ![s] = ValueToString(hist)]
    /\ intent' = [intent EXCEPT ![s] = <<>>]
    /\ search_results' = [search_results EXCEPT ![s] = <<>>]
    /\ trace' = [trace EXCEPT ![s] =
                   <<Event("classify", "start", <<ValueToString(msg)>>)>>]
    /\ result' = [result EXCEPT ![s] = NoResult]
    /\ histBefore' = [histBefore EXCEPT ![s] = conversation_history[s]]
    /\ pc' = [pc EXCEPT ![s] = "classify_lock"]

(***************************************************************************)
(* main, from its start to the first await.                                 *)
(***************************************************************************)
main(s) ==
    /\ pc[s] = "main"
    /\ IF OneShot(args[s])
         THEN forward_begin(s, args[s][3], <<>>)
         ELSE /\ pc' = [pc EXCEPT ![s] = "read_line"]
              /\ UNCHANGED <<message, user_message, history_arg, intent,
                             search_results, trace, result, histBefore>>
    /\ UNCHANGED <<args, stdin, conversation_history, completed, lockVars, normVars>>

\* a loop that reads the next line while the turn before it is still running
AtPromptAnytime(s) == pc[s] \notin {"main", "exited", "panicked"}

\* main line 300: the loop reads the next line only once the turn before it
\* was awaited (line 331) and its result handled
AtPrompt(s) == pc[s] = "read_line"

\* the interactive loop: read one line, then continue, break, or start a turn
read_line(s) ==
    /\ AtPrompt(s)
    /\ IF stdin[s] = <<>>
         THEN \* Ok(0): end of input
              /\ pc' = [pc EXCEPT ![s] = "exited"]
              /\ UNCHANGED <<stdin, message, user_message, history_arg, intent,
                             search_results, trace, result, histBefore>>
         ELSE /\ stdin' = [stdin EXCEPT ![s] = Tail(stdin[s])]
              /\ LET msg == trim(Head(stdin[s]))
                 IN  IF msg = <<>>
                       THEN UNCHANGED <<pc, message, user_message, history_arg,
                                        intent, search_results, trace, result,
                                        histBefore>>
                     ELSE IF eq_ignore_ascii_case(msg, T_exit)
                               \/ eq_ignore_ascii_case(msg, T_quit)
                       THEN /\ pc' = [pc EXCEPT ![s] = "exited"]
                            /\ UNCHANGED <<message, user_message, history_arg,
                                           intent, search_results, trace,
                                           result, histBefore>>
                     ELSE forward_begin(s, msg,
                                        join(conversation_history[s], Newline))
    /\ UNCHANGED <<args, conversation_history, completed, lockVars, normVars>>

\* read_line fails: the loop breaks
read_error(s) ==
    /\ pc[s] = "read_line"
    /\ pc' = [pc EXCEPT ![s] = "exited"]
    /\ UNCHANGED <<args, stdin, message, conversation_history, user_message,
                   history_arg, intent, search_results, trace, result,
                   completed, histBefore, lockVars, normVars>>

(***************************************************************************)
(* Arc<Mutex<LM>>: forward_with_config takes the binding's lock for the     *)
(* language-model call and gives it back when the call returns.             *)
(***************************************************************************)
\* a call that does not wait for the binding's lock
LockFreeAlways(b) == TRUE

\* a call that keeps the binding's lock after it returned
ReleaseKeeps(s, stage, b) ==
    /\ lock' = lock
    /\ inflight' = inflight \ {<<s, stage, b>>}

LockFree(b) == lock[b] = 0

Acquire(s, stage, b) ==
    /\ LockFree(b)
    /\ lock' = [lock EXCEPT ![b] = s]
    /\ inflight' = inflight \cup {<<s, stage, b>>}

Release(s, stage, b) ==
    /\ lock' = [lock EXCEPT ![b] = IF lock[b] = s THEN 0 ELSE lock[b]]
    /\ inflight' = inflight \ {<<s, stage, b>>}

(***************************************************************************)
(* How forward ends, and what main does with its result.                    *)
(***************************************************************************)
\* a loop that records the turn in the history whatever forward returned
forward_returns_always_pushes(s, r) ==
    /\ result' = [result EXCEPT ![s] = r]
    /\ IF OneShot(args[s])
         THEN /\ pc' = [pc EXCEPT ![s] = "exited"]
              /\ UNCHANGED conversation_history
         ELSE /\ pc' = [pc EXCEPT ![s] = "read_line"]
              /\ conversation_history' =
                   [conversation_history EXCEPT ![s] =
                       @ \o <<UserPrefix \o message[s],
                              AssistantPrefix \o r.response>>]

\* a loop that pushes the response before the message
forward_returns_swapped(s, r) ==
    /\ result' = [result EXCEPT ![s] = r]
    /\ IF OneShot(args[s])
         THEN /\ pc' = [pc EXCEPT ![s] = "exited"]
              /\ UNCHANGED conversation_history
         ELSE /\ pc' = [pc EXCEPT ![s] = "read_line"]
              /\ IF r.kind = "ok"
                   THEN conversation_history' =
                          [conversation_history EXCEPT ![s] =
                              @ \o <<AssistantPrefix \o r.response,
                                     UserPrefix \o message[s]>>]
                   ELSE UNCHANGED conversation_history

\* main lines 285-288 and 331-345: in the interactive loop a successful turn
\* is pushed to the history and a failed one is only reported; either way
\* the loop goes on.  In the one-shot mode main returns.
forward_returns(s, r) ==
    /\ result' = [result EXCEPT ![s] = r]
    /\ IF OneShot(args[s])
         THEN /\ pc' = [pc EXCEPT ![s] = "exited"]
              /\ UNCHANGED conversation_history
         ELSE /\ pc' = [pc EXCEPT ![s] = "read_line"]
              /\ IF r.kind = "ok"
                   THEN conversation_history' =
                          [conversation_history EXCEPT ![s] =
                              @ \o <<UserPrefix \o message[s],
                                     AssistantPrefix \o r.response>>]
                   ELSE UNCHANGED conversation_history

\* a stage that reports a field without a string as an ordinary error
panics_recovers(s) == forward_returns(s, [kind |-> "err", response |-> <<>>])

\* as_str().unwrap() on an output field that holds no string
panics(s) ==
    /\ result' = [result EXCEPT ![s] = [kind |-> "panic", response |-> <<>>]]
    /\ pc' = [pc EXCEPT ![s] = "panicked"]
    /\ UNCHANGED conversation_history

\* forward lines 211-217: call PersonalityChat::respond with the history, the
\* message and the search results or ""
call_respond(s, opt, tr) ==
    /\ search_results' = [search_results EXCEPT ![s] = opt]
    /\ trace' = [trace EXCEPT ![s] =
                   Append(tr, Event("respond", "start",
                                    <<history_arg[s], user_message[s],
                                      UnwrapOrEmpty(opt)>>))]
    /\ pc' = [pc EXCEPT ![s] = "respond_lock"]
    /\ UNCHANGED <<result, conversation_history>>

\* a forward that starts the synthesis while the search is still running
call_search_speculative(s, tr) ==
    /\ trace' = [trace EXCEPT ![s] =
                   tr \o <<Event("extract", "start", <<user_message[s]>>),
                           Event("respond", "start",
                                 <<history_arg[s], user_message[s], <<>>>>)>>]
    /\ pc' = [pc EXCEPT ![s] = "search_lock"]
    /\ UNCHANGED <<search_results, result, conversation_history>>

\* forward lines 192-193: call SearchTool::search with the message
call_search(s, tr) ==
    /\ trace' = [trace EXCEPT ![s] =
                   Append(tr, Event("extract", "start", <<user_message[s]>>))]
    /\ pc' = [pc EXCEPT ![s] = "search_lock"]
    /\ UNCHANGED <<search_results, result, conversation_history>>

\* a forward that runs the search tool whatever the intent
IsSearchAlways(i) == TRUE

\* forward line 192: the test that selects the search tool
IsSearch(i) == i = T_search

\* forward lines 194-199: the search succeeded, its results go to respond
search_ok(s, results, tr) == call_respond(s, <<results>>, tr)

\* a forward that calls the search tool again when the search fails
search_err_retries(s, tr) == call_search(s, tr)

\* a forward that gives up the turn when the search fails
search_err_propagates(s, tr) ==
    /\ trace' = [trace EXCEPT ![s] = tr]
    /\ forward_returns(s, [kind |-> "err", response |-> <<>>])
    /\ UNCHANGED search_results

\* forward lines 200-204: the search failed, respond runs without results
search_err(s, tr) == call_respond(s, <<>>, tr)

\* forward lines 206-209: no search for any other intent
no_search(s, tr) == call_respond(s, <<>>, tr)

(***************************************************************************)
(* IntentClassifier::classify                                               *)
(***************************************************************************)
classify_lock(s) ==
    /\ pc[s] = "classify_lock"
    /\ Acquire(s, "classify", ClassifierBinding)
    /\ pc' = [pc EXCEPT ![s] = "classify_call"]
    /\ UNCHANGED <<args, stdin, message, conversation_history, user_message,
                   history_arg, intent, search_results, trace, result,
                   completed, histBefore, normVars>>

classify_return(s) ==
    /\ pc[s] = "classify_call"
    /\ Release(s, "classify", ClassifierBinding)
    /\ \E out \in LMOutcomes(IntentOutputs) :
         LET tr == Append(trace[s], Event("classify", out.kind, <<out.val>>))
         IN  CASE out.kind = "err" ->
                    \* classify(..).await? : forward returns the error
                    /\ trace' = [trace EXCEPT ![s] = tr]
                    /\ forward_returns(s, [kind |-> "err", response |-> <<>>])
                    /\ UNCHANGED <<intent, search_results>>
               [] out.kind = "bad" ->
                    /\ trace' = [trace EXCEPT ![s] = tr]
                    /\ panics(s)
                    /\ UNCHANGED <<intent, search_results>>
               [] out.kind = "ok" ->
                    /\ intent' = [intent EXCEPT ![s] = NormalizeIntent(out.val)]
                    /\ IF IsSearch(NormalizeIntent(out.val))
                         THEN call_search(s, tr)
                         ELSE no_search(s, tr)
    /\ UNCHANGED <<args, stdin, message, user_message, history_arg, completed,
                   histBefore, normVars>>

(***************************************************************************)
(* SearchTool::search                                                       *)
(***************************************************************************)
\* a search tool that searches for the raw question
RetrieveArgRaw(user_question, query) == user_question

\* SearchTool::search line 53: search_web is called with the extracted query
RetrieveArg(user_question, query) == query

\* SearchTool::search lines 50-55: the Ok value, (query, results)
search_value(user_question, query) ==
    <<query, search_web(RetrieveArg(user_question, query))>>

search_lock(s) ==
    /\ pc[s] = "search_lock"
    /\ Acquire(s, "extract", SearchToolBinding)
    /\ pc' = [pc EXCEPT ![s] = "search_call"]
    /\ UNCHANGED <<args, stdin, message, conversation_history, user_message,
                   history_arg, intent, search_results, trace, result,
                   completed, histBefore, normVars>>

search_return(s) ==
    /\ pc[s] = "search_call"
    /\ Release(s, "extract", SearchToolBinding)
    /\ \E out \in LMOutcomes(QueryOutputs) :
         LET tr == Append(trace[s], Event("extract", out.kind, <<out.val>>))
         IN  CASE out.kind = "err" ->
                    \* forward_with_config(..).await? : search returns Err
                    search_err(s, tr)
               [] out.kind = "bad" ->
                    /\ trace' = [trace EXCEPT ![s] = tr]
                    /\ panics(s)
                    /\ UNCHANGED search_results
               [] out.kind = "ok" ->
                    \* search_web(&query).await has no suspension point;
                    \* the "retrieve" end event holds the retrieved text and
                    \* then the query that search returns with it
                    LET pair == search_value(user_message[s], out.val)
                    IN  search_ok(s, pair[2],
                            tr \o <<Event("retrieve", "start",
                                          <<RetrieveArg(user_message[s], out.val)>>),
                                    Event("retrieve", "ok", <<pair[2], pair[1]>>)>>)
    /\ UNCHANGED <<args, stdin, message, user_message, history_arg, intent,
                   completed, histBefore, normVars>>

(***************************************************************************)
(* PersonalityChat::respond                                                 *)
(***************************************************************************)
respond_lock(s) ==
    /\ pc[s] = "respond_lock"
    /\ Acquire(s, "respond", PersonalityBinding)
    /\ pc' = [pc EXCEPT ![s] = "respond_call"]
    /\ UNCHANGED <<args, stdin, message, conversation_history, user_message,
                   history_arg, intent, search_results, trace, result,
                   completed, histBefore, normVars>>

respond_return(s) ==
    /\ pc[s] = "respond_call"
    /\ Release(s, "respond", PersonalityBinding)
    /\ \E out \in LMOutcomes(ResponseOutputs) :
         /\ trace' = [trace EXCEPT ![s] =
                        Append(@, Event("respond", out.kind, <<out.val>>))]
         /\ CASE out.kind = "err" ->
                    forward_returns(s, [kind |-> "err", response |-> <<>>])
              [] out.kind = "bad" -> panics(s)
              [] out.kind = "ok" ->
                    forward_returns(s, [kind |-> "ok", response |-> out.val])
         /\ completed' =
              [completed EXCEPT ![s] =
                  IF out.kind = "ok" /\ ~OneShot(args[s])
                    THEN Append(@, <<message[s], out.val>>) ELSE @]
    /\ UNCHANGED <<args, stdin, message, user_message, history_arg, intent,
                   search_results, histBefore, normVars>>

(***************************************************************************)
(* Specifications.                                                          *)
(***************************************************************************)
Next ==
    \E s \in Sessions :
        \/ main(s)
        \/ read_line(s)
        \/ read_error(s)
        \/ classify_lock(s)
        \/ classify_return(s)
        \/ search_lock(s)
        \/ search_return(s)
        \/ respond_lock(s)
        \/ respond_return(s)

Spec == Init /\ [][Next]_vars

\* several sessions, each a task running the loop, over one shared agent
ConcStdins == {<<L_hi>>}
InitConc ==
    /\ InitSessions(Sessions, {<<T_prog>>}, ConcStdins)
    /\ normText = <<>>
    /\ normLabel = <<>>
SpecConc == InitConc /\ [][Next]_vars

(***************************************************************************)
(* The intent normalization on its own, over classifier output texts:       *)
(* every letter-case variant of "search" and some near misses, with         *)
(* padding on both sides.                                                   *)
(***************************************************************************)
UpperChar(c) ==
    IF \E i \in 1..26 : LowerAscii[i] = c
      THEN UpperAscii[CHOOSE i \in 1..26 : LowerAscii[i] = c]
      ELSE c

CaseVariants(w) ==
    {[i \in 1..Len(w) |-> IF i \in up THEN UpperChar(w[i]) ELSE w[i]] :
        up \in SUBSET (1..Len(w))}

NearMisses ==
    { <<>>, T_chat, <<"e","a","r","c","h">>, <<"s","e","a","r","c">>,
      <<"s","e","r","a","c","h">>, <<"s","e","a"," ","r","c","h">>,
      <<"h","e","l","l","o"," ","t","h","e","r","e">> }

Pads == BoundedSeq({"s", "H", " "}, MaxPad)

NormInputs ==
    {p \o w \o q : p \in Pads, q \in Pads,
                   w \in CaseVariants(T_search) \cup NearMisses}

InitNormalize ==
    /\ InitSessions({}, ArgsChoices, Stdins)
    /\ normText \in NormInputs
    /\ normLabel = <<>>

normalize ==
    /\ normLabel = <<>>
    /\ normLabel' = NormalizeIntent(normText)
    /\ UNCHANGED <<args, stdin, pc, message, conversation_history,
                   user_message, history_arg, intent, search_results, lock,
                   inflight, trace, result, completed, histBefore, normText>>

SpecNormalize == InitNormalize /\ [][normalize]_vars

(***************************************************************************)
(* Properties.                                                              *)
(***************************************************************************)
\* positions in the current turn's trace of the events (stage, ev)
Events(s, stage, ev) ==
    {i \in 1..Len(trace[s]) : trace[s][i].stage = stage /\ trace[s][i].ev = ev}

Has(s, stage, ev) == Events(s, stage, ev) # {}

\* the turn has returned to main (or panicked)
TurnOver(s) == result[s].kind # "none"

\* the synthesizer was called, and every such call got `ctx` as search_results
SynthesizedWith(s, ctx) ==
    /\ Has(s, "respond", "start")
    /\ \A i \in Events(s, "respond", "start") : trace[s][i].data[3] = ctx

IsPrefix(a, b) == Len(a) <= Len(b) /\ SubSeq(b, 1, Len(a)) = a

\* C1: whenever the classifier call of a turn failed, the synthesizer is
\* still invoked, with empty retrieved context, and the turn fails only if
\* that synthesis call fails.
C1_ClassifierFailureDegrades ==
    \A s \in Sessions :
        (Has(s, "classify", "err") /\ TurnOver(s)) =>
            /\ SynthesizedWith(s, <<>>)
            /\ result[s].kind = "err" => Has(s, "respond", "err")

\* C2: when the synthesis call of a turn failed, the turn returned an error
\* without a response and the conversation history is what it was when the
\* turn started.
C2_SynthesisFailureLeavesHistory ==
    \A s \in Sessions :
        Has(s, "respond", "err") =>
            /\ result[s] = [kind |-> "err", response |-> <<>>]
            /\ conversation_history[s] = histBefore[s]

C2_Witness ==
    \E s \in Sessions :
        /\ Has(s, "respond", "err")
        /\ Len(completed[s]) >= 1
        /\ pc[s] = "read_line"

\* C3: when the query-extraction call of a Search turn failed, the
\* synthesizer is invoked with an empty search_results text, and the turn
\* succeeds exactly when that synthesis call succeeds.
C3_SearchFailureDegrades ==
    \A s \in Sessions :
        Has(s, "extract", "err") =>
            /\ SynthesizedWith(s, <<>>)
            /\ search_results[s] = <<>>
            /\ ~Has(s, "retrieve", "start")
            /\ TurnOver(s) => (result[s].kind = "ok" <=> Has(s, "respond", "ok"))
            /\ result[s].kind = "err" => Has(s, "respond", "err")

C3_Witness ==
    \E s \in Sessions :
        /\ Has(s, "extract", "err")
        /\ intent[s] = T_search
        /\ result[s].kind = "ok"

\* C4: in a turn classified as Chat the query extractor and the retrieval
\* function are never invoked and the synthesizer gets an empty
\* search_results text.
C4_ChatNeverSearches ==
    \A s \in Sessions :
        intent[s] = T_chat =>
            /\ ~Has(s, "extract", "start")
            /\ ~Has(s, "retrieve", "start")
            /\ \A x \in inflight : x[1] = s => x[2] # "extract"
            /\ pc[s] \notin {"search_lock", "search_call"}
            /\ SynthesizedWith(s, <<>>)

C4_Witness ==
    \E s \in Sessions :
        /\ intent[s] = T_chat
        /\ Has(s, "respond", "ok")
        /\ result[s].kind = "ok"

\* C5: in a Search turn whose retrieval succeeded, the search_results field
\* the synthesizer receives is exactly the text the retrieval function
\* returned.
C5_SearchResultsVerbatim ==
    \A s \in Sessions :
        \A i \in Events(s, "retrieve", "ok") :
            /\ intent[s] = T_search
            /\ SynthesizedWith(s, trace[s][i].data[1])
            /\ trace[s][i].data[1] = SearchWebResult

C5_Witness ==
    \E s \in Sessions :
        /\ Has(s, "retrieve", "ok")
        /\ Has(s, "respond", "ok")
        /\ result[s].kind = "ok"

\* C6: after N successful turns of a session the history has exactly 2N
\* entries, entry 2k-1 the User entry of the k-th successful turn's message
\* and entry 2k the Assistant entry of its response, in processing order;
\* and no step changes or removes an entry already in the history.
C6_HistoryShape ==
    \A s \in Sessions :
        /\ Len(conversation_history[s]) = 2 * Len(completed[s])
        /\ \A k \in 1..Len(completed[s]) :
             /\ conversation_history[s][2 * k - 1] = UserPrefix \o completed[s][k][1]
             /\ conversation_history[s][2 * k] = AssistantPrefix \o completed[s][k][2]

C6_AppendOnly ==
    \A s \in Sessions :
        IsPrefix(conversation_history[s], conversation_history'[s])

C6_HistoryOrdered == []C6_HistoryShape /\ [][C6_AppendOnly]_vars

C6_Witness ==
    \E s \in Sessions :
        /\ Len(completed[s]) = 2
        /\ completed[s][1] # completed[s][2]
        /\ Len(conversation_history[s]) = 4

\* C7: on every binding at most one language-model call is in flight.
C7_OneCallPerBinding ==
    \A b \in Bindings :
        /\ Cardinality({x \in inflight : x[3] = b}) <= 1
        /\ \A x \in inflight : x[3] = b => lock[b] = x[1]

\* two sessions want the classifier binding at once: one holds it, the other waits
C7_Witness ==
    \E s, t \in Sessions :
        /\ s # t
        /\ pc[s] \in {"classify_call", "search_call"}
        /\ pc[t] \in {"classify_lock", "search_lock"}

\* C8: classification and synthesis calls never share a binding: while only
\* synthesis calls are in flight a waiting classification call can start,
\* while no synthesis call is in flight a waiting synthesis call can start,
\* and a call in flight can always complete.
C8_RolesDoNotBlock ==
    /\ \A x, y \in inflight :
         (x[2] = "respond" /\ y[2] = "classify") => x[3] # y[3]
    /\ \A t \in Sessions :
         /\ (pc[t] = "classify_lock" /\ \A x \in inflight : x[2] = "respond")
               => ENABLED classify_lock(t)
         /\ (pc[t] = "respond_lock" /\ \A x \in inflight : x[2] # "respond")
               => ENABLED respond_lock(t)
         /\ pc[t] = "classify_call" => ENABLED classify_return(t)
         /\ pc[t] = "respond_call" => ENABLED respond_return(t)

\* a synthesis call and a classification call of two turns in flight together
C8_Witness ==
    \E s, t \in Sessions :
        /\ <<s, "respond", PersonalityBinding>> \in inflight
        /\ <<t, "classify", ClassifierBinding>> \in inflight

StageRank(stage) ==
    CASE stage = "classify" -> 1
      [] stage = "extract" -> 2
      [] stage = "retrieve" -> 3
      [] stage = "respond" -> 4

\* C9: within a turn the stages run one after the other: a stage that has
\* started ends before any other event of the turn, stages appear in the
\* order classify, search (extract, retrieve), respond, a turn begins with
\* the classifier call, and a session never has two calls in flight.
C9_StagesInSequence ==
    \A s \in Sessions :
        /\ Cardinality({x \in inflight : x[1] = s}) <= 1
        /\ trace[s] # <<>> =>
             /\ trace[s][1].stage = "classify"
             /\ trace[s][1].ev = "start"
        /\ \A i \in 1..Len(trace[s]) :
             /\ (trace[s][i].ev = "start" /\ i < Len(trace[s])) =>
                  /\ trace[s][i + 1].stage = trace[s][i].stage
                  /\ trace[s][i + 1].ev # "start"
             /\ trace[s][i].ev # "start" =>
                  /\ i > 1
                  /\ trace[s][i - 1].stage = trace[s][i].stage
                  /\ trace[s][i - 1].ev = "start"
             /\ \A j \in 1..Len(trace[s]) :
                  i < j => StageRank(trace[s][i].stage) <= StageRank(trace[s][j].stage)
        /\ \A x \in inflight :
             x[1] = s =>
                /\ trace[s][Len(trace[s])].stage = x[2]
                /\ trace[s][Len(trace[s])].ev = "start"

\* a Search turn that ran all its stages
C9_Witness ==
    \E s \in Sessions :
        /\ Has(s, "classify", "ok")
        /\ Has(s, "extract", "ok")
        /\ Has(s, "retrieve", "ok")
        /\ Has(s, "respond", "ok")

\* some window of t spells "search", each letter in either case
HasSearchAnyCase(t) ==
    \E i \in 0..(Len(t) - 6) :
        \A j \in 1..6 : t[i + j] \in {T_search[j], UpperChar(T_search[j])}

\* C10: the normalized intent is Search exactly for the texts that contain
\* "search" in any letter case and Chat for every other text, the empty text
\* included; it is never anything else.
C10_NormalizeIntent ==
    normLabel # <<>> =>
        /\ normLabel \in {T_search, T_chat}
        /\ normLabel = T_search <=> HasSearchAnyCase(normText)
        /\ normText = <<>> => normLabel = T_chat

\* a text that is Search only because of the lower-casing
C10_Witness ==
    /\ normLabel = T_search
    /\ ~contains(normText, T_search)


\* a turn of session s is running: forward was called and has not returned
TurnActive(s) ==
    pc[s] \in {"classify_lock", "classify_call", "search_lock", "search_call",
               "respond_lock", "respond_call"}

\* a step starts a turn of session s: its trace begins anew
TurnStarts(s) == trace'[s] # trace[s] /\ Len(trace'[s]) = 1

\* C11: a session has at most one active turn: a turn starts only when no
\* turn of the session is running and none of its calls is in flight, the
\* turn before it has returned, and the history holds that turn's update.
C11_TurnStartsWhenIdle ==
    \A s \in Sessions :
        TurnStarts(s) =>
            /\ ~TurnActive(s)
            /\ \A x \in inflight : x[1] # s
            /\ trace[s] # <<>> => TurnOver(s)
            /\ Len(conversation_history[s]) = 2 * Len(completed[s])
            /\ conversation_history'[s] = conversation_history[s]

C11_OneActiveTurn == [][C11_TurnStartsWhenIdle]_vars

\* a second turn of a session is running after its first one succeeded
C11_Witness ==
    \E s \in Sessions :
        /\ Len(completed[s]) >= 1
        /\ pc[s] = "classify_call"


\* the last event of the current turn
LastEvent(s) == trace[s][Len(trace[s])]

Rendered(h) == join(h, Newline)

\* C13: while a turn runs the history is not changed, and the
\* conversation_history text the synthesizer receives is exactly the
\* rendering of the entries that earlier successful turns appended.
C13_HistorySnapshot ==
    \A s \in Sessions :
        /\ TurnActive(s) => conversation_history[s] = histBefore[s]
        /\ \A i \in Events(s, "respond", "start") :
             /\ trace[s][i].data[1] = Rendered(histBefore[s])
             /\ Len(histBefore[s]) = 2 * Len(completed[s])
                  \/ (TurnOver(s) /\ result[s].kind = "ok")


\* how often the current turn called a stage
Calls(s, stage) == Cardinality(Events(s, stage, "start"))

\* C14: no stage is retried: a turn calls the classifier exactly once and
\* the query extractor, the retrieval function and the synthesizer at most
\* once each, and a call that ended, failed or not, is never followed by
\* another call of its stage in that turn.
C14_NoRetry ==
    \A s \in Sessions :
        /\ trace[s] # <<>> => Calls(s, "classify") = 1
        /\ Calls(s, "extract") <= 1
        /\ Calls(s, "retrieve") <= 1
        /\ Calls(s, "respond") <= 1
        /\ \A i, j \in 1..Len(trace[s]) :
             (i < j /\ trace[s][i].ev # "start") =>
                 trace[s][j].stage # trace[s][i].stage

\* a turn whose query extraction failed and that went on to answer
C14_Witness ==
    \E s \in Sessions :
        /\ Has(s, "extract", "err")
        /\ Has(s, "respond", "err")
        /\ TurnOver(s)


\* C15: the retrieval function is called only right after the query
\* extraction succeeded, and with the extracted query; when the extraction
\* fails it is not called in that turn; and a successful search returns the
\* extracted query together with the retrieved text.
C15_RetrieveAfterExtraction ==
    \A s \in Sessions :
        /\ \A i \in Events(s, "retrieve", "start") :
             /\ i > 1
             /\ trace[s][i - 1].stage = "extract"
             /\ trace[s][i - 1].ev = "ok"
             /\ trace[s][i].data = trace[s][i - 1].data
             /\ trace[s][i + 1] =
                  Event("retrieve", "ok",
                        <<SearchWebResult, trace[s][i - 1].data[1]>>)
        /\ (Has(s, "extract", "err") \/ Has(s, "extract", "bad")) =>
             ~Has(s, "retrieve", "start")
        /\ Has(s, "extract", "ok") => Has(s, "retrieve", "ok")

\* a search whose extracted query differs from the message it came from
C15_Witness ==
    \E s \in Sessions :
        \E i \in Events(s, "retrieve", "start") :
            /\ trace[s][i].data[1] = <<"2", "+", "2">>
            /\ trace[s][i].data[1] # user_message[s]
            /\ trace[s][i].data[1] # message[s]


(***************************************************************************)
(* Concurrent sessions under fair scheduling: a language-model call in      *)
(* flight eventually returns, and a task waiting for a binding's lock gets  *)
(* it if the lock is free again and again (tokio's Mutex hands the lock to  *)
(* its waiters in FIFO order).                                              *)
(***************************************************************************)
Fairness ==
    \A s \in Sessions :
        /\ WF_vars(classify_return(s))
        /\ WF_vars(search_return(s))
        /\ WF_vars(respond_return(s))
        /\ SF_vars(classify_lock(s))
        /\ SF_vars(search_lock(s))
        /\ SF_vars(respond_lock(s))

SpecLive == InitConc /\ [][Next]_vars /\ Fairness

\* a binding is held exactly by a session whose call on it is in flight, so
\* a session holds at most one binding and holds none while it waits for one
\* or between two calls
NoHoldAndWait ==
    \A s \in Sessions :
        /\ lock[ClassifierBinding] = s <=> pc[s] \in {"classify_call", "search_call"}
        /\ lock[PersonalityBinding] = s <=> pc[s] = "respond_call"

\* a running turn is never stuck: a call in flight can return, and a session
\* waiting for a binding can take it or waits for another session's call in
\* flight, which can return
CanTake(s, b) ==
    \/ lock[b] = 0
    \/ \E t \in Sessions \ {s} : lock[b] = t /\ \E x \in inflight : x[1] = t /\ x[3] = b

NoStuckTurn ==
    \A s \in Sessions :
        /\ pc[s] = "classify_lock" =>
             CanTake(s, ClassifierBinding)
               /\ (lock[ClassifierBinding] = 0 => ENABLED classify_lock(s))
        /\ pc[s] = "search_lock" =>
             CanTake(s, SearchToolBinding)
               /\ (lock[SearchToolBinding] = 0 => ENABLED search_lock(s))
        /\ pc[s] = "respond_lock" =>
             CanTake(s, PersonalityBinding)
               /\ (lock[PersonalityBinding] = 0 => ENABLED respond_lock(s))
        /\ pc[s] = "classify_call" => ENABLED classify_return(s)
        /\ pc[s] = "search_call" => ENABLED search_return(s)
        /\ pc[s] = "respond_call" => ENABLED respond_return(s)

\* how far a turn has come
TurnRank(p) ==
    CASE p = "classify_lock" -> 1
      [] p = "classify_call" -> 2
      [] p = "search_lock" -> 3
      [] p = "search_call" -> 4
      [] p = "respond_lock" -> 5
      [] p = "respond_call" -> 6
      [] OTHER -> 7

\* every step of a running turn brings it nearer to its end, and a turn that
\* ends has a result: a response, an error or the panic of a schema violation
TurnAdvances ==
    \A s \in Sessions :
        (TurnActive(s) /\ pc'[s] # pc[s]) =>
            /\ TurnRank(pc'[s]) > TurnRank(pc[s])
            /\ ~TurnActive(s)' => TurnOver(s)'

TurnsEventuallyEnd ==
    \A s \in Sessions : TurnActive(s) ~> (~TurnActive(s) /\ TurnOver(s))

C17_ExtractorSharesClassifierBinding ==
    /\ ~\E x, y \in inflight : x[2] = "extract" /\ y[2] = "classify"
    /\ \A x \in inflight : x[2] \in {"extract", "classify"} => x[3] = ClassifierBinding
    /\ \A t \in Sessions :
         /\ (pc[t] = "search_lock" /\ \A x \in inflight : x[2] = "respond")
               => ENABLED search_lock(t)
         /\ (pc[t] = "respond_lock" /\ \A x \in inflight : x[2] = "extract")
               => ENABLED respond_lock(t)
         /\ (pc[t] = "classify_lock" /\ \E x \in inflight : x[2] = "extract")
               => ~ENABLED classify_lock(t)
         /\ (pc[t] = "search_lock" /\ \E x \in inflight : x[2] = "classify")
               => ~ENABLED search_lock(t)

\* a query extraction and a synthesis in flight together, of two turns
C17_Witness ==
    \E s, t \in Sessions :
        /\ <<s, "extract", SearchToolBinding>> \in inflight
        /\ <<t, "respond", PersonalityBinding>> \in inflight


\* a line that holds nothing but whitespace
BlankLine(line) == \A i \in 1..Len(line) : IsWhitespace(line[i])

\* a line that holds "exit" or "quit" in some letter case and, around it,
\* nothing but whitespace
ExitLine(line) ==
    \E w \in CaseVariants(T_exit) \cup CaseVariants(T_quit) :
        \E i \in 1..Len(line) :
            /\ i + Len(w) - 1 <= Len(line)
            /\ SubSeq(line, i, i + Len(w) - 1) = w
            /\ \A k \in 1..Len(line) :
                 (k < i \/ k > i + Len(w) - 1) => IsWhitespace(line[k])

\* the step starts no turn of session s and leaves its history alone
StartsNoTurn(s) ==
    /\ trace'[s] = trace[s]
    /\ result'[s] = result[s]
    /\ conversation_history'[s] = conversation_history[s]
    /\ ~TurnActive(s)'
    /\ \A x \in inflight' : x[1] # s

\* C18: at the prompt, a blank line starts no turn, leaves the history as it
\* is and keeps the session at the prompt; "exit" or "quit" in any letter
\* case, or the end of input, ends the session without a turn; and once the
\* session has ended it stays ended and calls no stage.
C18_PromptStep ==
    \A s \in Sessions :
        /\ (pc[s] = "read_line" /\ stdin[s] = <<>>) =>
             /\ StartsNoTurn(s)
             /\ pc'[s] # pc[s] => pc'[s] = "exited"
        /\ (pc[s] = "read_line" /\ stdin[s] # <<>> /\ ExitLine(Head(stdin[s]))) =>
             /\ StartsNoTurn(s)
             /\ stdin'[s] # stdin[s] => pc'[s] = "exited"
             /\ pc'[s] # pc[s] => pc'[s] = "exited"
        /\ (pc[s] = "read_line" /\ stdin[s] # <<>> /\ BlankLine(Head(stdin[s]))) =>
             /\ StartsNoTurn(s)
             /\ stdin'[s] # stdin[s] =>
                  (pc'[s] = "read_line" /\ stdin'[s] = Tail(stdin[s]))
        /\ pc[s] = "exited" =>
             /\ pc'[s] = "exited"
             /\ stdin'[s] = stdin[s]
             /\ StartsNoTurn(s)

C18_SessionLoop == [][C18_PromptStep]_vars

\* a session that ended after a successful turn with a message still unread
C18_Witness ==
    \E s \in Sessions :
        /\ pc[s] = "exited"
        /\ ~OneShot(args[s])
        /\ Len(completed[s]) = 1
        /\ stdin[s] = <<L_hi>>

====
